---- MODULE Spec2Model ----
(***************************************************************************)
(* NeuroSynaptic Glass IV - Jazz Cathedral (src/sketch.js).                *)
(*                                                                         *)
(* A model of the sketch's orchestration state: global energy, mood, the   *)
(* four pools (voices, cells, links, particles), the pending response      *)
(* timers and the input handlers that drive them.                          *)
(*                                                                         *)
(* Numbers the sketch keeps as floats are kept here as integers in fixed   *)
(* units, chosen so that every step of the code is an exact integer step:  *)
(*   globalEnergy, amplitudes   1e-6          (1 is 1000000)               *)
(*   cell life, link life       1e-2          (255 is 25500, 0.22 is 22)   *)
(*   particle life              1e-1          (2.8 is 28)                  *)
(*   frequencies                1e-2 Hz       (170 Hz is 17000)            *)
(*   time                       milliseconds, as millis() and setTimeout   *)
(* Rendering (display, hue, radii, positions) and the oscillator graph are *)
(* external collaborators and hold no state the handlers read back.        *)
(***************************************************************************)
EXTENDS Integers, Sequences, FiniteSets, TLC

\* ------------------------------------------------------------------------
\* Program constants
\* ------------------------------------------------------------------------
MAX_CELLS == 90
MAX_LINKS == 260
MAX_VOICES == 12
\* emitParticles: if (particles.length > 1800) particles.splice(0, 260)
MAX_PARTICLES == 1800
PARTICLE_BATCH == 260
\* cathedralImpulse: if (links.length > MAX_LINKS) links.splice(0, 14)
LINK_BATCH == 14
\* globalEnergy = min(1, ...), in 1e-6
ENERGY_CAP == 1000000
\* updateMood: if (millis() - lastMoodChange < 900) return
MOOD_COOLDOWN == 900
\* GlassCell.constructor: this.life = 255, in 1e-2
CELL_LIFE == 25500
\* setup: 10 seeded cells, 18 addRandomLink() draws
SEED_CELLS == 10
SEED_LINK_DRAWS == 18
\* keyPressed: const vel = 96
KEY_VEL == 96
\* aiJazzAnswer: while (n < 36) n += 12; while (n > 92) n -= 12
FOLD_LOW == 36
FOLD_HIGH == 92

Moods == {"calm", "mystery", "tension", "joy", "expansion"}

Min(a, b) == IF a < b THEN a ELSE b

\* keyboardMap
keyboardMap ==
    [k \in {"a", "s", "d", "f", "g", "h", "j", "k", "l",
            "q", "w", "e", "r", "t", "y", "u", "i", "o", "p"} |->
        CASE k = "a" -> 48 [] k = "s" -> 50 [] k = "d" -> 52 [] k = "f" -> 53
          [] k = "g" -> 55 [] k = "h" -> 57 [] k = "j" -> 59
          [] k = "k" -> 60 [] k = "l" -> 62
          [] k = "q" -> 60 [] k = "w" -> 62 [] k = "e" -> 64 [] k = "r" -> 65
          [] k = "t" -> 67 [] k = "y" -> 69 [] k = "u" -> 71
          [] k = "i" -> 72 [] k = "o" -> 74 [] k = "p" -> 76]

\* key.toLowerCase() on the letters the model presses
toLowerCase(k) ==
    CASE k = "A" -> "a" [] k = "P" -> "p" [] k = "Z" -> "z" [] OTHER -> k

\* pickNoteFromPosition: x / windowWidth in 1/1000 of the width, constrained
\* to [0, 1]; idx = floor(t * (scale.length - 1)); scale[idx] is always
\* defined, so the random fallback is never taken
pickNoteFromPosition(x) ==
    LET scale == <<48, 50, 52, 55, 57, 60, 62, 64, 67, 69, 72, 74, 76>>
        t == IF x < 0 THEN 0 ELSE IF x > 1000 THEN 1000 ELSE x
        idx == (t * (Len(scale) - 1)) \div 1000
    IN  scale[idx + 1]

\* pickVelocityFromPosition: floor(lerp(65, 120, t)), y in 1/1000 of height
pickVelocityFromPosition(y) ==
    LET t == IF y < 0 THEN 0 ELSE IF y > 1000 THEN 1000 ELSE y
    IN  65 + ((120 - 65) * t) \div 1000

\* ------------------------------------------------------------------------
\* Numeric mappings (p5 map(v, a, b, c, d) = (v-a)/(b-a)*(d-c)+c)
\* ------------------------------------------------------------------------

\* midiToFreq(note) = 440 * 2^((note-69)/12), in 1e-2 Hz: the twelve pitch
\* classes of octave -1 in 1e-4 Hz, doubled once per octave
midiToFreq(note) ==
    LET base == <<81758, 86620, 91770, 97227, 103009, 109134,
                  115623, 122499, 129783, 137500, 145676, 154339>>
    IN  (base[(note % 12) + 1] * 2^(note \div 12)) \div 100

\* amp = map(vel, 0, 127, 0.045, 0.22), in 1e-6
ampOf(vel) == 45000 + (175000 * vel) \div 127

\* density = floor(map(vel, 0, 127, 1, 6))
densityOf(vel) == 1 + (5 * vel) \div 127

\* responseDelay(vel) = floor(map(vel, 0, 127, 240, 80))
responseDelay(vel) == (240 * 127 - 160 * vel) \div 127

\* aiJazzAnswer: floor(map(vel, 0, 127, 1, 4)) extra beams
archCount(vel) == 1 + (3 * vel) \div 127

\* emitParticles: count = floor(map(amp, 0.05, 0.22, 8, 28)), amp in 1e-6
particleCount(amp) == (8 * 170000 + (amp - 50000) * 20) \div 170000

\* cathedralImpulse: globalEnergy = min(1, globalEnergy + amp * 0.9)
EnergyAfterImpulseNoCap(e, amp) == e + (amp * 9) \div 10
EnergyAfterImpulse(e, amp) == Min(ENERGY_CAP, e + (amp * 9) \div 10)

\* draw: globalEnergy *= 0.985
EnergyAfterTick(e) == (e * 985) \div 1000

\* ------------------------------------------------------------------------
\* Mood classifier (updateMood)
\* ------------------------------------------------------------------------

\* the ordered rules of updateMood; freq in 1e-2 Hz
classifyJoyAfterTension(freq, vel) ==
    IF freq < 17000 /\ vel < 60 THEN "calm"
    ELSE IF freq < 25000 /\ vel > 85 THEN "mystery"
    ELSE IF vel > 112 THEN "tension"
    ELSE IF freq > 60000 /\ vel > 90 THEN "joy"
    ELSE "expansion"
classify(freq, vel) ==
    IF freq < 17000 /\ vel < 60 THEN "calm"
    ELSE IF freq < 25000 /\ vel > 85 THEN "mystery"
    ELSE IF freq > 60000 /\ vel > 90 THEN "joy"
    ELSE IF vel > 112 THEN "tension"
    ELSE "expansion"

\* if (millis() - lastMoodChange < 900) return
inCooldownNever(t, last) == FALSE
inCooldown(t, last) == t - last < MOOD_COOLDOWN

\* updateMood(freq, vel) at time t: the new <<mood, lastMoodChange>>
updateMoodOnChange(m, last, t, freq, vel) ==
    IF inCooldown(t, last) THEN <<m, last>>
    ELSE <<classify(freq, vel), IF classify(freq, vel) = m THEN last ELSE t>>
updateMood(m, last, t, freq, vel) ==
    IF inCooldown(t, last) THEN <<m, last>>
    ELSE <<classify(freq, vel), t>>

\* ------------------------------------------------------------------------
\* Response voicing (chooseVoicing and the fold loops of aiJazzAnswer)
\* ------------------------------------------------------------------------
chooseVoicingFlat(root, m) ==
    IF m = "calm" THEN <<root, root + 4, root + 7, root + 11, root + 14>>
    ELSE <<root, root + 3, root + 6, root + 9, root + 13>>
chooseVoicing(root, m) ==
    IF m = "calm" THEN <<root, root + 4, root + 7, root + 11, root + 14>>
    ELSE IF m = "mystery"
        THEN <<root, root + 3, root + 7, root + 10, root + 14, root + 17>>
    ELSE IF m = "tension"
        THEN <<root, root + 4, root + 10, root + 13, root + 15>>
    ELSE IF m = "joy"
        THEN <<root, root + 4, root + 6, root + 7, root + 11, root + 14>>
    ELSE <<root, root + 3, root + 7, root + 10, root + 14>>

\* while (n < 36) n += 12
RECURSIVE foldUp(_)
foldUp(n) == IF n < FOLD_LOW THEN foldUp(n + 12) ELSE n

\* while (n > 92) n -= 12
RECURSIVE foldDown(_)
foldDown(n) == IF n > FOLD_HIGH THEN foldDown(n - 12) ELSE n

\* the pitch one voicing note is played at
foldClamp(n) == IF n < FOLD_LOW THEN FOLD_LOW ELSE IF n > FOLD_HIGH THEN FOLD_HIGH ELSE n
fold(n) == foldDown(foldUp(n))

\* ------------------------------------------------------------------------
\* Pseudo-random draws.  Every handler takes one draw r; the i-th random()
\* of the handler is a fixed function of r and i, so the set r is drawn
\* from bounds the random choices a run explores.
\* ------------------------------------------------------------------------

\* random(cells): an index into a list of length len (len > 0)
pick(r, i, len) == ((r + 7 * i) % len) + 1

\* GlassLink.constructor: life = random(180, 560), in 1e-2: [18000, 56000)
linkLifeDraw(r, i) == 18000 + ((r + i) % 3) * 18999

\* emitParticles: life = random(110, 230), in 1e-1: [1100, 2300)
particleLifeDraw(r, i) == 1100 + ((r + i) % 3) * 599

\* ------------------------------------------------------------------------
\* Pools
\* ------------------------------------------------------------------------

\* playVoice: the pool after one voice v is requested
playVoiceNoEvict(vs, v) == Append(vs, v)
playVoice(vs, v) ==
    LET kept == IF Len(vs) > MAX_VOICES THEN Tail(vs) ELSE vs
    IN  Append(kept, v)

\* new GlassLink(a, b, ai): a and b are cell identities
GlassLink(a, b, ai, life) ==
    [a |-> a, b |-> b, ai |-> ai, life |-> life, dangling |-> 0,
     boosted |-> 0]

\* addRandomLink(ai): the 2i-th and (2i+1)-th draws pick a and b;
\* random([]) is undefined and pushes nothing
addRandomLink(ls, cs, ai, r, i) ==
    IF Len(cs) = 0 THEN ls
    ELSE LET a == cs[pick(r, 2 * i, Len(cs))]
             b == cs[pick(r + 3 * i, 2 * i + 1, Len(cs))]
         IN  IF a # b THEN Append(ls, GlassLink(a, b, ai, linkLifeDraw(r, i)))
             ELSE ls

\* addLinkTo(cell), cell already pushed onto cs
addLinkToSelf(ls, cs, cell, r, i) ==
    IF Len(cs) < 2 THEN ls
    ELSE Append(ls, GlassLink(cell, cs[pick(r, i, Len(cs))], FALSE, linkLifeDraw(r, i)))
addLinkTo(ls, cs, cell, r, i) ==
    IF Len(cs) < 2 THEN ls
    ELSE LET target == cs[pick(r, i, Len(cs))]
         IN  IF target = cell THEN ls
             ELSE Append(ls, GlassLink(cell, target, FALSE, linkLifeDraw(r, i)))

\* for (let i = 0; i < density; i++) addLinkTo(c), from iteration i on
RECURSIVE addLinksTo(_, _, _, _, _, _)
addLinksTo(ls, cs, cell, r, i, density) ==
    IF i >= density THEN ls
    ELSE addLinksTo(addLinkTo(ls, cs, cell, r, i), cs, cell, r, i + 1, density)

\* for (let k = 0; k < n; k++) addRandomLink(ai), from iteration k on
RECURSIVE addRandomLinks(_, _, _, _, _, _)
addRandomLinks(ls, cs, ai, r, k, n) ==
    IF k >= n THEN ls
    ELSE addRandomLinks(addRandomLink(ls, cs, ai, r, k), cs, ai, r, k + 1, n)

\* splice(0, n): the list without its first n elements
dropHead(s, n) == IF n >= Len(s) THEN << >> ELSE SubSeq(s, n + 1, Len(s))

\* emitParticles(p, freq, amp): count particles pushed, then the bulk prune
emitParticlesNoPrune(ps, amp, r) ==
    ps \o [i \in 1..particleCount(amp) |-> particleLifeDraw(r, i - 1)]
emitParticles(ps, amp, r) ==
    LET pushed == ps \o [i \in 1..particleCount(amp) |-> particleLifeDraw(r, i - 1)]
    IN  IF Len(pushed) > MAX_PARTICLES THEN dropHead(pushed, PARTICLE_BATCH)
        ELSE pushed

\* cathedralImpulse, PRUNE: if (cells.length > MAX_CELLS) cells.splice(0, 1)
pruneCellsNewest(cs) ==
    IF Len(cs) > MAX_CELLS THEN SubSeq(cs, 1, Len(cs) - 1) ELSE cs
pruneCells(cs) == IF Len(cs) > MAX_CELLS THEN dropHead(cs, 1) ELSE cs

\* setTimeout(cb, delay): one more callback among the pending ones
setTimeoutOnly(ps, cb) == <<cb>>
setTimeout(ps, cb) == Append(ps, cb)

\* cathedralImpulse, PRUNE: if (links.length > MAX_LINKS) links.splice(0, 14)
pruneLinks(ls) == IF Len(ls) > MAX_LINKS THEN dropHead(ls, LINK_BATCH) ELSE ls

\* ------------------------------------------------------------------------
\* State
\* ------------------------------------------------------------------------
VARIABLES
    now,              \* millis(): milliseconds since the sketch started
    frameCount,       \* p5 frameCount: draw() calls so far
    audioReady,       \* let audioReady
    pressedKeys,      \* the keys k with pressedKeys[k] true
    pointerIdToNote,  \* pointerId -> note of the pointers that are down
    mood,
    lastMoodChange,
    globalEnergy,     \* in 1e-6
    voices,           \* list of [id, freq]: one oscillator each, oldest first
    nVoices,          \* oscillators created so far (the identity of the next)
    cells,            \* list of the identities of the GlassCells in the pool
    cellLife,         \* identity -> life of every GlassCell created; a cell
                      \* a link still refers to keeps its last life once it
                      \* has left the pool
    links,            \* list of [a, b, ai, life, dangling, boosted]
    particles,        \* list of particle lives, oldest first
    pending,          \* setTimeout callbacks not yet run: [note, vel, due]
    impulses,         \* history: cathedralImpulse calls so far
    answers,          \* history: aiJazzAnswer calls so far
    moodChangedAt,    \* history: when the value of mood last changed, or -1
    last,             \* history: what the last impulse, answer or MIDI
                      \* note-off did
    handled,          \* history: [note, vel, at, mood] of every impulse, in
                      \* the order of the cathedralImpulse calls
    fired,            \* history: the impulses whose response has run, in
                      \* the order the responses ran
    danglingReaped,   \* history: the most frames any link reaped by draw()
                      \* had spent with an endpoint outside the cell pool
    keyLog            \* history: for every key (lower case) with a key-down
                      \* since its last key-up, the impulses those key-downs
                      \* made and whether one of them was a repeat

vars ==
    <<now, frameCount, audioReady, pressedKeys, pointerIdToNote, mood,
      lastMoodChange, globalEnergy, voices, nVoices, cells, cellLife, links,
      particles, pending, impulses, answers, moodChangedAt, last,
      handled, fired, danglingReaped, keyLog>>

inputVars == <<audioReady, pressedKeys, pointerIdToNote, keyLog>>
engineVars ==
    <<mood, lastMoodChange, globalEnergy, voices, nVoices, cells, cellLife,
      links, particles, pending, impulses, answers, moodChangedAt, last,
      handled, fired, danglingReaped>>

\* setup(): 10 cells of life 255, 18 addRandomLink() draws; the globals at
\* their declared values
Setup(r) ==
    /\ now = 0
    /\ frameCount = 0
    /\ audioReady = FALSE
    /\ pressedKeys = {}
    /\ pointerIdToNote = << >>
    /\ mood = "calm"
    /\ lastMoodChange = 0
    /\ globalEnergy = 0
    /\ voices = << >>
    /\ nVoices = 0
    /\ cells = [i \in 1..SEED_CELLS |-> i]
    /\ cellLife = [i \in 1..SEED_CELLS |-> CELL_LIFE]
    /\ links = addRandomLinks(<< >>, [i \in 1..SEED_CELLS |-> i], FALSE, r, 0,
                              SEED_LINK_DRAWS)
    /\ particles = << >>
    /\ pending = << >>
    /\ impulses = 0
    /\ answers = 0
    /\ moodChangedAt = -1
    /\ last = [op |-> "setup"]
    /\ handled = << >>
    /\ fired = << >>
    /\ danglingReaped = 0
    /\ keyLog = << >>

\* ------------------------------------------------------------------------
\* cathedralImpulse(note, vel), with the handler's random draw r
\* ------------------------------------------------------------------------
cathedralImpulse(note, vel, r) ==
    LET freq == midiToFreq(note)
        amp == ampOf(vel)
        md == updateMood(mood, lastMoodChange, now, freq, vel)
        c == SEED_CELLS + impulses + 1
        pushed == Append(cells, c)
        linked == addLinksTo(links, pushed, c, r, 0, densityOf(vel))
    IN  /\ globalEnergy' = EnergyAfterImpulse(globalEnergy, amp)
        /\ mood' = md[1]
        /\ lastMoodChange' = md[2]
        /\ voices' = playVoice(voices, [id |-> nVoices + 1, freq |-> freq])
        /\ nVoices' = nVoices + 1
        /\ cellLife' = [i \in DOMAIN cellLife \cup {c} |->
                          IF i = c THEN CELL_LIFE ELSE cellLife[i]]
        /\ cells' = pruneCells(pushed)
        /\ links' = pruneLinks(linked)
        /\ particles' = emitParticles(particles, amp, r)
        /\ pending' = setTimeout(pending,
                                 [note |-> note, vel |-> vel,
                                  due |-> now + responseDelay(vel),
                                  id |-> impulses + 1])
        /\ handled' = Append(handled, [note |-> note, vel |-> vel,
                                       at |-> now, mood |-> md[1]])
        /\ fired' = fired
        /\ impulses' = impulses + 1
        /\ answers' = answers
        /\ moodChangedAt' = IF md[1] # mood THEN now ELSE moodChangedAt
        /\ last' = [op |-> "impulse", note |-> note, vel |-> vel, at |-> now,
                    gated |-> inCooldown(now, lastMoodChange),
                    linksBefore |-> Len(links),
                    cellsBefore |-> Len(cells),
                    linked |-> Len(linked) - Len(links),
                    pushed |-> Len(particles) + particleCount(amp)]
        /\ danglingReaped' = danglingReaped

\* ------------------------------------------------------------------------
\* aiJazzAnswer(note, vel): the k-th pending timer runs
\* ------------------------------------------------------------------------

\* playVoice(f * random(0.995, 1.006), ...): the detune in 1/1000
detuneDraw(r, i) == 995 + ((r + i) % 3) * 5

\* the loop over the voicing, from index i on
RECURSIVE playVoicing(_, _, _, _, _)
playVoicing(vs, nv, voicing, r, i) ==
    IF i > Len(voicing) THEN vs
    ELSE LET n == fold(voicing[i])
             f == (midiToFreq(n) * detuneDraw(r, i)) \div 1000
         IN  playVoicing(playVoice(vs, [id |-> nv + i, freq |-> f]),
                         nv, voicing, r, i + 1)

\* timers run in the order of their due times, and in the order they were
\* set among equal due times; none runs before it is due
isNextTimerFifo(k) ==
    /\ k = 1
    /\ k \in 1..Len(pending)
    /\ pending[k].due <= now
isNextTimer(k) ==
    /\ k \in 1..Len(pending)
    /\ pending[k].due <= now
    /\ \A j \in 1..Len(pending) :
          \/ pending[j].due > pending[k].due
          \/ pending[j].due = pending[k].due /\ j >= k

\* the mood chooseVoicing is called with by the response to impulse id
moodOfAnswerAtTrigger(id) == handled[id].mood
moodOfAnswer(id) == mood

aiJazzAnswer(k, r) ==
    /\ isNextTimer(k)
    /\ LET note == pending[k].note
           vel == pending[k].vel
           voicing == chooseVoicing(note, moodOfAnswer(pending[k].id))
       IN  /\ voices' = playVoicing(voices, nVoices, voicing, r, 1)
           /\ nVoices' = nVoices + Len(voicing)
           /\ links' = addRandomLinks(links, cells, TRUE, r, 0, archCount(vel))
           /\ last' = [op |-> "answer", note |-> note, vel |-> vel,
                       id |-> pending[k].id,
                       mood |-> mood, linksBefore |-> Len(links),
                       pitches |-> [i \in 1..Len(voicing) |-> fold(voicing[i])]]
    /\ pending' = [j \in 1..(Len(pending) - 1) |->
                      IF j < k THEN pending[j] ELSE pending[j + 1]]
    /\ answers' = answers + 1
    /\ fired' = Append(fired, pending[k].id)
    /\ UNCHANGED <<now, frameCount, inputVars, mood, lastMoodChange,
                   globalEnergy, cells, cellLife, particles, impulses,
                   moodChangedAt, handled, danglingReaped>>

\* ------------------------------------------------------------------------
\* draw(): one frame
\* ------------------------------------------------------------------------

\* GlassLink.update, reading the endpoints' lives; dangling counts the
\* frames the link was updated with an endpoint outside the cell pool and
\* boosted those of them that took the extra 1.5
inPool(c) == \E i \in 1..Len(cells) : cells[i] = c

linkUpdateNoDecay(l) ==
    [l EXCEPT !.dangling = IF inPool(l.a) /\ inPool(l.b) THEN @ ELSE @ + 1]
linkUpdate(l) ==
    LET base == IF l.ai THEN 75 ELSE 55
        extra == IF cellLife[l.a] < 1200 \/ cellLife[l.b] < 1200 THEN 150 ELSE 0
    IN  [l EXCEPT !.life = @ - base - extra,
                  !.dangling = IF inPool(l.a) /\ inPool(l.b) THEN @ ELSE @ + 1,
                  !.boosted = IF (inPool(l.a) /\ inPool(l.b)) \/ extra = 0
                              THEN @ ELSE @ + 1]

linkAlive(l) == l.life > 0

draw ==
    LET updated == [i \in 1..Len(links) |-> linkUpdate(links[i])]
        aged == [c \in DOMAIN cellLife |->
                    IF inPool(c) THEN cellLife[c] - 22 ELSE cellLife[c]]
        moved == [i \in 1..Len(particles) |-> particles[i] - 28]
        gone == {updated[i].dangling : i \in {j \in 1..Len(updated) :
                                                  ~linkAlive(updated[j])}}
    IN  /\ links' = SelectSeq(updated, linkAlive)
        /\ danglingReaped' =
              CHOOSE m \in gone \cup {danglingReaped} :
                  \A d \in gone \cup {danglingReaped} : d <= m
        /\ cellLife' = aged
        /\ cells' = SelectSeq(cells, LAMBDA c : aged[c] > 0)
        /\ particles' = SelectSeq(moved, LAMBDA p : p > 0)
        /\ globalEnergy' = EnergyAfterTick(globalEnergy)
        /\ frameCount' = frameCount + 1
        /\ UNCHANGED <<now, inputVars, mood, lastMoodChange, voices, nVoices,
                       pending, impulses, answers, moodChangedAt, last,
                       handled, fired>>

\* the clock moves on by dt milliseconds between two handlers
advance(dt) ==
    /\ now' = now + dt
    /\ UNCHANGED <<frameCount, inputVars, engineVars>>

\* ------------------------------------------------------------------------
\* Input handlers
\* ------------------------------------------------------------------------

\* handleMIDI(msg), msg.data = [cmd, note, vel]; a message that is not a
\* note-on with vel > 0 falls through the if and is only noted in last
handleMIDI(cmd, note, vel, r) ==
    /\ IF cmd = 144 /\ vel > 0
       THEN cathedralImpulse(note, vel, r)
       ELSE /\ last' = [op |-> "noteoff"]
            /\ UNCHANGED <<mood, lastMoodChange, globalEnergy, voices,
                           nVoices, cells, cellLife, links, particles,
                           pending, impulses, answers, moodChangedAt,
                           handled, fired, danglingReaped>>
    /\ UNCHANGED <<now, frameCount, inputVars>>

\* activateAudioIfNeeded()
activateAudioIfNeeded == audioReady' = TRUE

\* the key log after a key-down of k that made n impulses
logKeyDown(k, n) ==
    [j \in DOMAIN keyLog \cup {k} |->
        IF j # k THEN keyLog[j]
        ELSE IF k \in DOMAIN keyLog
             THEN [imp |-> keyLog[k].imp + n, repeated |-> TRUE]
             ELSE [imp |-> n, repeated |-> FALSE]]

\* if (pressedKeys[k]) return
isHeldNever(k) == FALSE
isHeld(k) == k \in pressedKeys

\* keyPressed(), key = key0
keyPressed(key0, r) ==
    LET k == toLowerCase(key0)
    IN  IF k \notin DOMAIN keyboardMap \/ isHeld(k)
        THEN /\ keyLog' = logKeyDown(k, 0)
             /\ UNCHANGED <<now, frameCount, audioReady, pressedKeys,
                            pointerIdToNote, engineVars>>
        ELSE /\ pressedKeys' = pressedKeys \cup {k}
             /\ activateAudioIfNeeded
             /\ cathedralImpulse(keyboardMap[k], KEY_VEL, r)
             /\ keyLog' = logKeyDown(k, 1)
             /\ UNCHANGED <<now, frameCount, pointerIdToNote>>

\* keyReleased(), key = key0
keyReleased(key0) ==
    LET k == toLowerCase(key0)
    IN  /\ keyLog' = [j \in DOMAIN keyLog \ {k} |-> keyLog[j]]
        /\ pressedKeys' = IF k \notin DOMAIN keyboardMap THEN pressedKeys
                          ELSE pressedKeys \ {k}
        /\ UNCHANGED <<now, frameCount, audioReady, pointerIdToNote,
                       engineVars>>

\* the pointerdown listener; x and y in 1/1000 of the window
pointerdown(id, x, y, r) ==
    LET note == pickNoteFromPosition(x)
        vel == pickVelocityFromPosition(y)
    IN  /\ activateAudioIfNeeded
        /\ pointerIdToNote' =
              [p \in DOMAIN pointerIdToNote \cup {id} |->
                  IF p = id THEN note ELSE pointerIdToNote[p]]
        /\ cathedralImpulse(note, vel, r)
        /\ UNCHANGED <<now, frameCount, pressedKeys, keyLog>>

\* the pointerup and pointercancel listeners
pointerup(id) ==
    /\ pointerIdToNote' =
          [p \in DOMAIN pointerIdToNote \ {id} |-> pointerIdToNote[p]]
    /\ UNCHANGED <<now, frameCount, audioReady, pressedKeys, keyLog,
                   engineVars>>

pointercancel(id) ==
    /\ pointerIdToNote' =
          [p \in DOMAIN pointerIdToNote \ {id} |-> pointerIdToNote[p]]
    /\ UNCHANGED <<now, frameCount, audioReady, pressedKeys, keyLog,
                   engineVars>>

\* ------------------------------------------------------------------------
\* Spec: every handler, on small input sets
\* ------------------------------------------------------------------------
MaxImpulses == 2
MaxFrames == 1
MaxTime == 1800

Notes == {40, 76}
Vels == {0, 127}
Cmds == {144, 128}
Keys == {"a", "A"}
PointerIds == {1}
PointerXs == {500}
PointerYs == {1000}
Draws == {0}
TimeSteps == {900}

Init == \E r \in Draws : Setup(r)

Next ==
    \/ \E cmd \in Cmds, note \in Notes, vel \in Vels, r \in Draws :
          impulses < MaxImpulses /\ handleMIDI(cmd, note, vel, r)
    \/ \E k \in Keys, r \in Draws :
          impulses < MaxImpulses /\ keyPressed(k, r)
    \/ \E k \in Keys : keyReleased(k)
    \/ \E id \in PointerIds, x \in PointerXs, y \in PointerYs, r \in Draws :
          impulses < MaxImpulses /\ pointerdown(id, x, y, r)
    \/ \E id \in PointerIds : pointerup(id)
    \/ \E id \in PointerIds : pointercancel(id)
    \/ \E k \in 1..Len(pending), r \in Draws : aiJazzAnswer(k, r)
    \/ frameCount < MaxFrames /\ draw
    \/ \E dt \in TimeSteps : now + dt <= MaxTime /\ advance(dt)

Spec == Init /\ [][Next]_vars

\* ------------------------------------------------------------------------
\* SpecBurst: a burst of MIDI note-ons within the first millisecond, long
\* enough to fill every pool.  The first note takes any velocity of
\* BurstOpenVels, the rest are struck at full velocity.  Frames are drawn
\* and the clock moves on to the timers' due time at a few points of the
\* burst (BurstFrameAt, BurstClockAt); once the clock has moved, the pending
\* answers run.
\* ------------------------------------------------------------------------
BurstLen == 85
BurstFrames == 1
BurstMaxTime == 80

BurstNotes == {60}
BurstOpenVels == {1, 96, 127}
BurstVels == {0, 127}
BurstTimes == {0}
BurstTimeSteps == {80}
BurstFrameAt == {3, 45, 84}
BurstClockAt == {13, 45, 85}

NextBurst ==
    \/ \E cmd \in Cmds, note \in BurstNotes,
          vel \in (IF impulses = 0 THEN BurstOpenVels ELSE BurstVels),
          r \in Draws :
          /\ now \in BurstTimes
          /\ impulses < BurstLen
          /\ handleMIDI(cmd, note, vel, r)
    \/ /\ frameCount < BurstFrames
       /\ impulses \in BurstFrameAt
       /\ draw
    \/ \E dt \in BurstTimeSteps :
          /\ now + dt <= BurstMaxTime
          /\ impulses \in BurstClockAt
          /\ advance(dt)
    \/ \E k \in 1..Len(pending), r \in Draws : aiJazzAnswer(k, r)

SpecBurst == Init /\ [][NextBurst]_vars

\* ------------------------------------------------------------------------
\* SpecVoicing: once the mood cooldown has run out, a first note-on picks
\* the mood (one note of VoicingSetters per mood), a second one inside the
\* new cooldown is struck on any MIDI pitch, and both are answered under
\* that mood when their timers are due.
\* ------------------------------------------------------------------------
VoicingImpulses == 2
VoicingMaxTime == 1800

VoicingSetters ==
    {<<40, 50>>, <<40, 127>>, <<62, 127>>, <<76, 127>>, <<76, 50>>}
VoicingRoots == {<<n, 127>> : n \in 0..127}
VoicingRest == {<<60, 127>>}
VoicingTimes == {900}

NextVoicing ==
    \/ \E nv \in (IF impulses = 0 THEN VoicingSetters
                  ELSE IF impulses = 1 THEN VoicingRoots ELSE VoicingRest),
          r \in Draws :
          /\ now \in VoicingTimes
          /\ impulses < VoicingImpulses
          /\ handleMIDI(144, nv[1], nv[2], r)
    \/ \E dt \in TimeSteps :
          /\ now + dt <= VoicingMaxTime
          /\ advance(dt)
    \/ \E k \in 1..Len(pending), r \in Draws : aiJazzAnswer(k, r)

SpecVoicing == Init /\ [][NextVoicing]_vars

\* ------------------------------------------------------------------------
\* SpecDecay: a long run of frames.  Note-ons arrive in bursts before the
\* first frame and after frame 1000 (DecayImpulseAt); frames are drawn when
\* no burst is under way (DecayFrameAt) and no timer is due; the clock
\* moves on to the timers' due time after frame 1001 (DecayClockAt).  A
\* burst of 96 notes evicts cells that links still refer to, and frame 1160
\* reaps the seed cells that the links of the second burst refer to.
\* ------------------------------------------------------------------------
DecayFrames == 1360
DecayBurst == 96
DecayMaxTime == 80

DecayImpulseAt == {0, 1000}
DecayFrameAt == {0, 1, 96}
DecayClockAt == {1001}

timerDue == \E k \in 1..Len(pending) : pending[k].due <= now

NextDecay ==
    \/ \E cmd \in Cmds, note \in BurstNotes, vel \in BurstVels, r \in Draws :
          /\ frameCount \in DecayImpulseAt
          /\ now = 0
          /\ impulses < DecayBurst
          /\ handleMIDI(cmd, note, vel, r)
    \/ /\ frameCount < DecayFrames
       /\ impulses \in DecayFrameAt
       /\ ~timerDue
       /\ draw
    \/ \E dt \in BurstTimeSteps :
          /\ now + dt <= DecayMaxTime
          /\ frameCount \in DecayClockAt
          /\ advance(dt)
    \/ \E k \in 1..Len(pending), r \in Draws : aiJazzAnswer(k, r)

SpecDecay == Init /\ [][NextDecay]_vars

\* ------------------------------------------------------------------------
\* SpecKeys: key-down and key-up events of two mapped keys (one of them
\* also with shift held) and an unmapped key, in any order; a key-down of a
\* key that is down is an auto-repeat.
\* ------------------------------------------------------------------------
KeysImpulses == 3

KeysKeys == {"a", "A", "p", "Z"}

NextKeys ==
    \/ \E key0 \in KeysKeys, r \in Draws :
          /\ impulses < KeysImpulses
          /\ keyPressed(key0, r)
    \/ \E key0 \in KeysKeys : keyReleased(key0)

SpecKeys == Init /\ [][NextKeys]_vars

\* ------------------------------------------------------------------------
\* SpecAnswer: a few note-ons, soft or loud, and their responses.  The clock
\* moves along AnswerTimeline, whose points are 80 ms apart where responses
\* are due and jump to the end of the first mood cooldown; a note-on can
\* arrive at the points of AnswerImpulseAt, each early enough for its
\* response to be due by AnswerMaxTime.  A due timer may run late.
\* SpecAnswerFair adds what the event loop guarantees: the clock moves on
\* and a due timer does run.
\* ------------------------------------------------------------------------
AnswerImpulses == 2
AnswerMaxTime == 1140

AnswerTimeline == {0, 80, 160, 240, 820, 900, 1140}
AnswerImpulseAt == {0, 80, 820, 900}
AnswerNotes == {76}
AnswerVels == {1, 127}

clockMoves ==
    \E t \in AnswerTimeline :
        /\ t > now
        /\ \A u \in AnswerTimeline : u > now => u >= t
        /\ t <= AnswerMaxTime
        /\ advance(t - now)

timerFires == \E k \in 1..Len(pending), r \in Draws : aiJazzAnswer(k, r)

NextAnswer ==
    \/ \E note \in AnswerNotes, vel \in AnswerVels, r \in Draws :
          /\ now \in AnswerImpulseAt
          /\ impulses < AnswerImpulses
          /\ handleMIDI(144, note, vel, r)
    \/ clockMoves
    \/ timerFires

SpecAnswer == Init /\ [][NextAnswer]_vars

SpecAnswerFair == SpecAnswer /\ WF_vars(clockMoves) /\ WF_vars(timerFires)

\* ------------------------------------------------------------------------
\* SpecSweep: the first note-on sweeps the pitches on either side of the
\* mood thresholds (170, 250 and 600 Hz lie between notes 52|53, 59|60 and
\* 74|75), every velocity 1..127 and the draws of SweepDraws, inside the
\* start-up cooldown or at its end; the following note-ons are loud high
\* notes.  Responses run when the clock has reached their due time.
\* ------------------------------------------------------------------------
SweepImpulses == 2
SweepMaxTime == 1800

SweepNotes == {52, 53, 59, 60, 74, 75}
SweepVels == 1..127
SweepDraws == {0, 10}
SweepRest == {<<76, 127>>}
SweepTimes == {0, 900}

NextSweep ==
    \/ \E note \in SweepNotes, vel \in SweepVels, r \in SweepDraws :
          /\ impulses = 0
          /\ now \in SweepTimes
          /\ handleMIDI(144, note, vel, r)
    \/ \E nv \in SweepRest, r \in Draws :
          /\ impulses > 0
          /\ impulses < SweepImpulses
          /\ handleMIDI(144, nv[1], nv[2], r)
    \/ \E dt \in TimeSteps :
          /\ now + dt <= SweepMaxTime
          /\ advance(dt)
    \/ \E k \in 1..Len(pending), r \in Draws : aiJazzAnswer(k, r)

SpecSweep == Init /\ [][NextSweep]_vars

\* ------------------------------------------------------------------------
\* Claims checked under SpecBurst
\* ------------------------------------------------------------------------

\* C1: globalEnergy is never negative and never above its cap (1, here
\* 1000000) after any interleaving of impulses, frames and answers.
C1_EnergyInRange == 0 <= globalEnergy /\ globalEnergy <= 1000000

\* C1 witness: after a frame has decayed the energy, an impulse has pushed
\* it to the cap.
C1_Witness ==
    /\ last.op = "impulse"
    /\ frameCount > 0
    /\ impulses >= 6
    /\ globalEnergy = 1000000

\* C2: the cell pool holds at most 90 cells, in creation order, and they are
\* always the most recently created ones (the cell an overflowing impulse
\* removes is the oldest, whatever its life); as long as no cell has been
\* reaped the pool holds exactly the min(N + 10, 90) newest cells after N
\* impulses.
C2_CellsFifo ==
    /\ Len(cells) <= 90
    /\ \A i \in 1..Len(cells) : cells[i] = 10 + impulses - Len(cells) + i
    /\ (\A c \in DOMAIN cellLife : cellLife[c] > 0) =>
          Len(cells) = Min(impulses + 10, 90)

\* C2 witness: impulses have overflowed the pool after a frame was drawn, so
\* the evicted seed cells left with life to spare; the pool is full and its
\* head is no longer the first seed.
C2_Witness ==
    /\ last.op = "impulse"
    /\ frameCount > 0
    /\ Len(cells) = 90
    /\ cells[1] > 1
    /\ cellLife[1] > 0
    /\ ~inPool(1)

\* C3: the voice pool never holds more than MAX_VOICES = 12 voices once
\* playVoice has returned.
C3_VoiceCap == Len(voices) <= 12

\* C4: the link pool never holds more than MAX_LINKS = 260 links once a
\* handler that inserts links has returned.
C4_LinkCap == Len(links) <= 260

\* C5: the particle pool never holds more than 1800 particles once
\* emitParticles has returned; a burst appends between 7 and 28 particles
\* for every velocity 1..127, and a burst that takes the pool over 1800 is
\* followed by the removal of the 260 oldest.
C5_ParticleCap ==
    /\ Len(particles) <= 1800
    /\ \A v \in 1..127 :
          particleCount(ampOf(v)) >= 7 /\ particleCount(ampOf(v)) <= 28
    /\ (last.op = "impulse" /\ last.pushed > 1800) =>
          Len(particles) <= last.pushed - 260

\* C5 witness: the last impulse's burst took the pool over 1800 and the
\* 260 oldest particles were dropped.
C5_Witness ==
    /\ last.op = "impulse"
    /\ last.pushed > 1800
    /\ Len(particles) = last.pushed - 260

\* C18: once an endpoint cell of a link has left the cell pool, reaped or
\* evicted, every following tick takes the extra 1.5 from the link: each of
\* the frames a link was updated with an endpoint outside the pool was an
\* accelerated one.
C18_AcceleratedOnceDangling ==
    \A i \in 1..Len(links) : links[i].boosted = links[i].dangling

\* ------------------------------------------------------------------------
\* Claims checked under SpecDecay
\* ------------------------------------------------------------------------

\* C6: no link dangles forever.  Every frame takes at least 0.55 (here 55)
\* from the life of every link and draw() keeps only links with life > 0, so
\* a link that has been updated d times with an endpoint outside the cell
\* pool (reaped or evicted) has life > 0 and life + 55 * d < 56000: it is
\* still in the pool after at most 1018 such frames, and every link draw()
\* reaps has spent at most 1019 frames dangling.
C6_NoLinkDanglesForever ==
    /\ \A i \in 1..Len(links) :
          /\ links[i].life > 0
          /\ links[i].life + 55 * links[i].dangling < 56000
          /\ links[i].dangling <= 1018
    /\ danglingReaped <= 1019

\* C6 witness: draw() has reaped a link that had outlived one of its
\* endpoints in the pool by more than 1000 frames, and no link of the pool
\* refers to a cell outside it any more.
C6_Witness ==
    /\ danglingReaped > 1000
    /\ \A i \in 1..Len(links) : inPool(links[i].a) /\ inPool(links[i].b)
    /\ \E c \in DOMAIN cellLife : ~inPool(c)

\* ------------------------------------------------------------------------
\* Claims checked under SpecVoicing
\* ------------------------------------------------------------------------

\* the fixed interval tables of the five moods
VoicingTable(m) ==
    CASE m = "calm" -> <<0, 4, 7, 11, 14>>
      [] m = "mystery" -> <<0, 3, 7, 10, 14, 17>>
      [] m = "tension" -> <<0, 4, 10, 13, 15>>
      [] m = "joy" -> <<0, 4, 6, 7, 11, 14>>
      [] OTHER -> <<0, 3, 7, 10, 14>>

\* C9: every pitch an answer hands to playVoice lies in [36, 92] and differs
\* from root + offset by a whole multiple of 12, for every mood, every root
\* 0..127 and every offset of the mood's voicing; the fold loops terminate
\* (the pitches are computed).
C9_FoldInRangeSamePitchClass ==
    last.op = "answer" =>
        /\ Len(last.pitches) = Len(VoicingTable(last.mood))
        /\ \A i \in 1..Len(last.pitches) :
              /\ last.pitches[i] >= 36
              /\ last.pitches[i] <= 92
              /\ (last.pitches[i] - (last.note + VoicingTable(last.mood)[i]))
                     % 12 = 0

\* C9 witness: an answer to the highest root, whose top note (127 + 17) is
\* folded down by five octaves, in the six-note mystery voicing.
C9_Witness ==
    /\ last.op = "answer"
    /\ last.note = 127
    /\ last.mood = "mystery"
    /\ last.pitches[6] = 84

\* C10 as stated: the i-th emitted pitch minus the first emitted pitch
\* equals the i-th offset of the mood's table, for every mood and root.
C10_IntervalsExact ==
    last.op = "answer" =>
        \A i \in 1..Len(last.pitches) :
            last.pitches[i] - last.pitches[1] = VoicingTable(last.mood)[i]

\* C10, amended: the i-th emitted pitch minus the first differs from the
\* i-th table offset by a whole multiple of 12, and equals it exactly
\* whenever the root is at least 36 and root + the table's largest offset is
\* at most 92 (no note of the voicing is folded).
C10_IntervalsModuloOctave ==
    last.op = "answer" =>
        LET t == VoicingTable(last.mood)
        IN  /\ Len(last.pitches) = Len(t)
            /\ \A i \in 1..Len(t) :
                  (last.pitches[i] - last.pitches[1] - t[i]) % 12 = 0
            /\ (last.note >= 36 /\ last.note + t[Len(t)] <= 92) =>
                  \A i \in 1..Len(t) :
                      last.pitches[i] - last.pitches[1] = t[i]

\* C10 witness: root 40 answered in expansion gives [40, 43, 47, 50, 54].
C10_Witness ==
    /\ last.op = "answer"
    /\ last.note = 40
    /\ last.mood = "expansion"
    /\ last.pitches = <<40, 43, 47, 50, 54>>

\* ------------------------------------------------------------------------
\* Claims checked under Spec
\* ------------------------------------------------------------------------

\* C7: mood changes at most once per cooldown window: a step that changes
\* the value of mood comes at least 900 ms after the handling time of the
\* previous impulse that changed it, and an impulse handled inside the
\* cooldown (now - lastMoodChange < 900) leaves mood and lastMoodChange as
\* they were.
C7_MoodOncePerCooldown ==
    [][ /\ mood' # mood =>
              \/ moodChangedAt = -1
              \/ now - moodChangedAt >= 900
        /\ (impulses' = impulses + 1 /\ now - lastMoodChange < 900) =>
              /\ mood' = mood
              /\ lastMoodChange' = lastMoodChange ]_vars

\* C7 witness: after mood changed, an impulse that would have classified to
\* another mood was handled less than 900 ms later and left mood alone.
C7_Witness ==
    /\ last.op = "impulse"
    /\ moodChangedAt >= 0
    /\ last.at - moodChangedAt < 900
    /\ classify(midiToFreq(last.note), last.vel) # mood

\* C11: an impulse that arrives before the audio unlock is dropped: while
\* audioReady is still false no impulse has been processed, so GlobalEnergy
\* is 0, mood is "calm", no voice or particle exists, no cell has been added
\* to the ten seeds and no response is pending.
C11_DroppedBeforeUnlock ==
    ~audioReady =>
        /\ impulses = 0
        /\ globalEnergy = 0
        /\ mood = "calm"
        /\ voices = << >>
        /\ particles = << >>
        /\ \A i \in 1..Len(cells) : cells[i] <= 10
        /\ pending = << >>

\* C12: a MIDI note-off (status 128, or status 144 with velocity 0) has one
\* effect, a decay pulse: GlobalEnergy after = GlobalEnergy before * 0.92,
\* with mood, lastMoodChange, the four pools and the pending responses
\* unchanged.
C12_NoteOffDecayPulse ==
    [][ (last'.op = "noteoff" /\ last.op # "noteoff") =>
            /\ globalEnergy' = (globalEnergy * 92) \div 100
            /\ UNCHANGED <<mood, lastMoodChange, voices, cells, links,
                           particles, pending>> ]_vars

\* ------------------------------------------------------------------------
\* Claims checked under SpecKeys
\* ------------------------------------------------------------------------

\* C13: a mapped key makes exactly one impulse per press: every key with a
\* key-down since its last key-up has made one impulse since then if it is
\* mapped, however many auto-repeat key-downs followed, and none if it is
\* not; a key-down of a mapped key with no key-down since its last key-up
\* makes an impulse (again); no other key event makes an impulse.
C13_OneImpulsePerPress ==
    [][ /\ \A k \in DOMAIN keyLog' :
              keyLog'[k].imp = IF k \in DOMAIN keyboardMap THEN 1 ELSE 0
        /\ impulses' = impulses + 1 <=>
              \E k \in DOMAIN keyboardMap :
                  k \in DOMAIN keyLog' /\ k \notin DOMAIN keyLog ]_vars

\* C13 witness: key a was pressed, released and pressed again (both impulses
\* so far are its note, 48), and has auto-repeated since without another
\* impulse.
C13_Witness ==
    /\ impulses = 2
    /\ \A i \in 1..Len(pending) : pending[i].note = 48
    /\ Len(pending) = 2
    /\ "a" \in DOMAIN keyLog
    /\ keyLog["a"].repeated
    /\ keyLog["a"].imp = 1

\* ------------------------------------------------------------------------
\* Claims checked under SpecAnswerFair and SpecAnswer
\* ------------------------------------------------------------------------

\* the times impulse id is found among the pending and the run responses
timesPending(id) == Cardinality({i \in 1..Len(pending) : pending[i].id = id})
timesFired(id) == Cardinality({i \in 1..Len(fired) : fired[i] = id})

C15_VoicingOfCurrentMood ==
    [][ answers' = answers + 1 =>
            LET t == VoicingTable(mood)
            IN  /\ last'.mood = mood
                /\ last'.pitches =
                      [i \in 1..Len(t) |-> fold(last'.note + t[i])] ]_vars

\* C15 witness: an impulse handled in calm at 820 ms was answered after the
\* impulse at 900 ms had changed the mood to joy, with the six notes of the
\* joy voicing.
C15_Witness ==
    /\ last.op = "answer"
    /\ handled[last.id].mood = "calm"
    /\ handled[last.id].at = 820
    /\ mood = "joy"
    /\ last.pitches = <<76, 80, 82, 83, 87, 90>>

\* the time the response to impulse id is due
dueOf(id) == handled[id].at + responseDelay(handled[id].vel)

\* C16: responses run in the order of their due times (impulse time +
\* responseDelay(vel)), not in the order they were scheduled.  The delay is
\* 240 ms at velocity 0, 80 ms at velocity 127 and never rises with
\* velocity; of two responses the one run first is due no later, none runs
\* before it is due, and impulses of equal velocity are answered in the
\* order they were handled.
C16_FiredInDueOrder ==
    /\ responseDelay(0) = 240
    /\ responseDelay(127) = 80
    /\ \A v \in 0..126 : responseDelay(v + 1) <= responseDelay(v)
    /\ \A j \in 1..Len(fired) :
          /\ dueOf(fired[j]) <= now
          /\ \A i \in 1..(j - 1) :
                /\ dueOf(fired[i]) <= dueOf(fired[j])
                /\ handled[fired[i]].vel = handled[fired[j]].vel =>
                      fired[i] < fired[j]

\* C16 witness: impulse 2 was handled after impulse 1, with a higher
\* velocity, and its response has run before that of impulse 1.
C16_Witness ==
    /\ fired = <<2, 1>>
    /\ handled[2].at > handled[1].at
    /\ handled[2].vel > handled[1].vel
    /\ dueOf(2) < dueOf(1)

\* ------------------------------------------------------------------------
\* Claims checked under SpecSweep
\* ------------------------------------------------------------------------

\* C8: after an impulse handled outside the cooldown, mood is the first
\* matching rule of the ordered list, decided by that impulse's frequency
\* (Hz * 100) and velocity alone; freq > 600 and vel > 112 gives joy.
C8_FirstMatchWins ==
    (last.op = "impulse" /\ ~last.gated) =>
        LET f == midiToFreq(last.note)
            v == last.vel
            r1 == f < 17000 /\ v < 60
            r2 == f < 25000 /\ v > 85
            r3 == f > 60000 /\ v > 90
            r4 == v > 112
        IN  /\ mood = "calm" <=> r1
            /\ mood = "mystery" <=> (~r1 /\ r2)
            /\ mood = "joy" <=> (~r1 /\ ~r2 /\ r3)
            /\ mood = "tension" <=> (~r1 /\ ~r2 /\ ~r3 /\ r4)
            /\ mood = "expansion" <=> (~r1 /\ ~r2 /\ ~r3 /\ ~r4)
            /\ (f > 60000 /\ v > 112) => mood = "joy"

\* C8 witness: a loud high note (rules 3 and 4 both match) was classified.
C8_Witness ==
    /\ last.op = "impulse"
    /\ ~last.gated
    /\ midiToFreq(last.note) > 60000
    /\ last.vel > 112
    /\ mood = "joy"

\* C17: an impulse that arrives when the pool holds at least one cell
\* creates at least 1 and at most 6 links from its new cell to other cells.
C17_OneToSixLinks ==
    (last.op = "impulse" /\ last.cellsBefore >= 1) =>
        /\ last.linked >= 1
        /\ last.linked <= 6

\* C19: no link is a self-loop: every link of the pool joins two distinct
\* cells, whether made at setup, by an impulse or by a response; a draw
\* that picks the same cell twice adds no link and is not repeated, so
\* setup makes at most 18 links, an impulse at most floor(map(vel)) and a
\* response at most floor(map(vel, 0, 127, 1, 4)).
C19_NoSelfLoop ==
    /\ \A i \in 1..Len(links) : links[i].a # links[i].b
    /\ impulses = 0 /\ answers = 0 /\ frameCount = 0 => Len(links) <= 18
    /\ last.op = "impulse" =>
          last.linked <= 1 + (5 * last.vel) \div 127
    /\ last.op = "answer" =>
          Len(links) - last.linksBefore <= 1 + (3 * last.vel) \div 127

\* C19 witness: setup skipped some of its 18 draws, the impulse made fewer
\* links than it drew targets because one draw picked the new cell, and a
\* response has run.
C19_Witness ==
    /\ last.op = "answer"
    /\ impulses = 1
    /\ handled[1].vel = 127
    /\ \E i \in 1..Len(links) : links[i].ai
    /\ Cardinality({i \in 1..Len(links) : links[i].a = 11}) < 6
    /\ Cardinality({i \in 1..Len(links) : ~links[i].ai /\ links[i].a # 11})
          \in 1..17

\* C20: the cooldown gate is armed from start-up and re-armed by every
\* classification: during the first 900 ms mood is "calm" and
\* lastMoodChange is 0 whatever was played; an impulse handled outside the
\* cooldown sets lastMoodChange to the current time even when mood keeps
\* its value, and an impulse handled less than 900 ms after any
\* classification leaves mood alone.
C20_GateArmedAndRearmed ==
    /\ [](now < 900 => mood = "calm" /\ lastMoodChange = 0)
    /\ [][ impulses' = impulses + 1 =>
              /\ now - lastMoodChange >= 900 => lastMoodChange' = now
              /\ now - lastMoodChange < 900 =>
                    /\ mood' = mood
                    /\ lastMoodChange' = lastMoodChange ]_vars

\* C20 witness: the first impulse, at 900 ms, was classified calm, the mood
\* it found; the loud high note that followed within the new cooldown
\* would have been joy and left mood calm.
C20_Witness ==
    /\ impulses = 2
    /\ handled[1].at = 900
    /\ handled[1].mood = "calm"
    /\ moodChangedAt = -1
    /\ lastMoodChange = 900
    /\ last.op = "impulse"
    /\ last.gated
    /\ classify(midiToFreq(last.note), last.vel) = "joy"
    /\ mood = "calm"

====
